---- MODULE Spec2Model ----
(***************************************************************************)
(* Model of src/src/deployer.py: the deployment run of main() (required    *)
(* inputs, option parsing, SesamNode construction, health check, secrets,  *)
(* variables and config deployment) and the bundle packaging of            *)
(* create_zipped_config over a file tree.                                  *)
(*                                                                         *)
(* Python strings are modelled as sequences of one-character strings so    *)
(* that lower(), strip(), split(), endswith(), os.path.join, basename and  *)
(* relpath are computed character by character.                            *)
(***************************************************************************)
EXTENDS Integers, Sequences, FiniteSets, TLC

\* ------------------------------------------------------------------------
\* Bounds of the explored inputs
\* ------------------------------------------------------------------------

\* number of candidate files (taken in order from CandidateFiles) a
\* configuration tree is drawn from
MaxFiles == 7

\* number of candidate whitelist lines (taken in order from CandidateLines)
MaxLines == 3

\* ------------------------------------------------------------------------
\* String literals
\* ------------------------------------------------------------------------

S_True == <<"T", "r", "u", "e">>
S_False == <<"F", "a", "l", "s", "e">>
S_true == <<"t", "r", "u", "e">>
S_false == <<"f", "a", "l", "s", "e">>
S_FALSE == <<"F", "A", "L", "S", "E">>
S_1 == <<"1">>
S_0 == <<"0">>
S_yes == <<"y", "e", "s">>
S_no == <<"n", "o">>
S_No == <<"N", "o">>
S_maybe == <<"m", "a", "y", "b", "e">>
S_pipes == <<"p", "i", "p", "e", "s">>
S_systems == <<"s", "y", "s", "t", "e", "m", "s">>
S_other == <<"o", "t", "h", "e", "r">>
S_sub == <<"s", "u", "b">>
S_x == <<"x">>
S_deployment == <<"d", "e", "p", "l", "o", "y", "m", "e", "n", "t">>
S_whitelist_txt == <<"w", "h", "i", "t", "e", "l", "i", "s", "t", ".", "t", "x", "t">>
S_node_metadata == <<"n", "o", "d", "e", "-", "m", "e", "t", "a", "d", "a", "t", "a", ".", "c", "o", "n", "f", ".", "j", "s", "o", "n">>
S_conf_json == <<"c", "o", "n", "f", ".", "j", "s", "o", "n">>
S_a_conf == <<"a", ".", "c", "o", "n", "f", ".", "j", "s", "o", "n">>
S_b_conf == <<"b", ".", "c", "o", "n", "f", ".", "j", "s", "o", "n">>
S_c_conf == <<"c", ".", "c", "o", "n", "f", ".", "j", "s", "o", "n">>
S_d_conf == <<"d", ".", "c", "o", "n", "f", ".", "j", "s", "o", "n">>
S_e_conf == <<"e", ".", "c", "o", "n", "f", ".", "j", "s", "o", "n">>
S_readme == <<"r", "e", "a", "d", "m", "e", ".", "m", "d">>
S_cfg == <<"c", "f", "g">>
S_repo_pipes == <<"r", "e", "p", "o", "/", "p", "i", "p", "e", "s">>
S_repo_pipes_slash == <<"r", "e", "p", "o", "/", "p", "i", "p", "e", "s", "/">>
S_secrets_json == <<"s", ".", "j", "s", "o", "n">>
S_variables_json == <<"v", ".", "j", "s", "o", "n">>
S_host == <<"h", "o", "s", "t">>
L_a == <<"p", "i", "p", "e", "s", "/", "a", ".", "c", "o", "n", "f", ".", "j", "s", "o", "n", "\n">>
L_meta == <<"n", "o", "d", "e", "-", "m", "e", "t", "a", "d", "a", "t", "a", ".", "c", "o", "n", "f", ".", "j", "s", "o", "n", "\n">>
L_dot_b == <<".", "/", "s", "y", "s", "t", "e", "m", "s", "/", "b", ".", "c", "o", "n", "f", ".", "j", "s", "o", "n", "\n">>
L_c == <<"o", "t", "h", "e", "r", "/", "c", ".", "c", "o", "n", "f", ".", "j", "s", "o", "n", " ", "\n">>
L_blank == <<"\n">>
J_good == <<"h", ".", "P", ".", "s">>
J_empty == <<"h", ".", "E", ".", "s">>
J_nodots == <<"h", "P", "s">>
S_empty == <<>>

\* Python's None (distinct from every string: its element is not a character)
None == <<"<None>">>

\* environment variable names, deployer.py lines 12-21
INPUT_NODE == "INPUT_NODE"
INPUT_JWT == "INPUT_JWT"
INPUT_DRY_RUN == "INPUT_DRY_RUN"
INPUT_FORCE_CONFIG == "INPUT_FORCE_CONFIG"
INPUT_REPLACE_SECRETS == "INPUT_REPLACE_SECRETS"
INPUT_SECRETS_FILE == "INPUT_SECRETS_FILE"
INPUT_VARIABLES_FILE == "INPUT_VARIABLES_FILE"
INPUT_USE_WHITELIST == "INPUT_USE_WHITELIST"
INPUT_CONFIG_FOLDER == "INPUT_CONFIG_FOLDER"
INPUT_WRITE_SUMMARY == "INPUT_WRITE_SUMMARY"

\* ------------------------------------------------------------------------
\* String and path functions
\* ------------------------------------------------------------------------

Min(a, b) == IF a < b THEN a ELSE b

\* str.lower() on the letters that occur in the explored values
LowerChar(c) ==
    CASE c = "T" -> "t" [] c = "R" -> "r" [] c = "U" -> "u" [] c = "E" -> "e"
      [] c = "F" -> "f" [] c = "A" -> "a" [] c = "L" -> "l" [] c = "S" -> "s"
      [] c = "N" -> "n" [] c = "O" -> "o" [] c = "Y" -> "y"
      [] OTHER -> c

Lower(s) == [i \in 1..Len(s) |-> LowerChar(s[i])]

IsSpace(c) == c \in {" ", "\n", "\t", "\r"}

RECURSIVE LStrip(_)
LStrip(s) == IF s # <<>> /\ IsSpace(Head(s)) THEN LStrip(Tail(s)) ELSE s

RECURSIVE RStrip(_)
RStrip(s) ==
    IF s # <<>> /\ IsSpace(s[Len(s)]) THEN RStrip(SubSeq(s, 1, Len(s) - 1)) ELSE s

\* str.strip()
Strip(s) == RStrip(LStrip(s))

\* str.endswith(suffix)
EndsWith(s, suffix) ==
    /\ Len(s) >= Len(suffix)
    /\ SubSeq(s, Len(s) - Len(suffix) + 1, Len(s)) = suffix

\* str.split(sep) for a one-character separator
RECURSIVE SplitFrom(_, _, _)
SplitFrom(s, sep, cur) ==
    IF s = <<>> THEN <<cur>>
    ELSE IF Head(s) = sep THEN <<cur>> \o SplitFrom(Tail(s), sep, <<>>)
    ELSE SplitFrom(Tail(s), sep, Append(cur, Head(s)))

Split(s, sep) == SplitFrom(s, sep, <<>>)

\* sep.join(parts)
RECURSIVE JoinWith(_, _)
JoinWith(parts, sep) ==
    IF parts = <<>> THEN <<>>
    ELSE IF Len(parts) = 1 THEN parts[1]
    ELSE parts[1] \o <<sep>> \o JoinWith(Tail(parts), sep)

\* os.path.join(a, b)
PathJoin(a, b) ==
    IF b # <<>> /\ Head(b) = "/" THEN b
    ELSE IF a = <<>> \/ a[Len(a)] = "/" THEN a \o b
    ELSE a \o <<"/">> \o b

\* os.path.join(a, p1, p2, ...)
RECURSIVE PathJoinAll(_, _)
PathJoinAll(a, parts) ==
    IF parts = <<>> THEN a ELSE PathJoinAll(PathJoin(a, Head(parts)), Tail(parts))

\* os.path.basename(p): what follows the last "/"
Basename(p) == LET parts == Split(p, "/") IN parts[Len(parts)]

\* the components of a normalised path ("" and "." dropped)
Components(p) == SelectSeq(Split(p, "/"), LAMBDA c : c # <<>> /\ c # <<".">>)

IsPrefix(p, q) == Len(p) <= Len(q) /\ SubSeq(q, 1, Len(p)) = p

\* os.path.relpath(path, start) for a path below start
Relpath(path, start) ==
    LET pc0 == Components(path)
        sc == Components(start)
        rest == SubSeq(pc0, Len(sc) + 1, Len(pc0))
    IN  IF rest = <<>> THEN <<".">> ELSE JoinWith(rest, "/")

\* ------------------------------------------------------------------------
\* State
\* ------------------------------------------------------------------------

VARIABLES
    environ,        \* os.environ: a function from the names that are set to their values
    tree,           \* the files below the config folder, each a sequence of path components
    whitelist_file, \* deployment/whitelist.txt: [exists, lines]
    json_files,     \* what reading the secrets / variables file finds: "ok", "malformed", "missing"
    pc,             \* position of main()
    opts,           \* the local variables main() reads from the environment
    sesam_node,     \* "None" until SesamNode(...) has returned, then "SesamNode"
    node_health,    \* the outcome of the health query, "unset" before it
    calls,          \* the calls made on the sesamclient connection, in order
    steps,          \* the deployment steps entered with a source, in order
    log,            \* the error and result messages logged, in order
    zip_path,       \* what create_zipped_config returned: "unset", "None" or "config.zip"
    archive,        \* the arcnames written to config.zip, in order
    raised,         \* the exception that ended the run, "" if none
    exitCode        \* the exit code of the process, -1 while it runs

vars == <<environ, tree, whitelist_file, json_files, pc, opts, sesam_node, node_health, calls,
          steps, log, zip_path, archive, raised, exitCode>>

inputs == <<environ, tree, whitelist_file, json_files>>

\* ------------------------------------------------------------------------
\* The file tree below the config folder
\* ------------------------------------------------------------------------

WhitelistComponents == <<S_deployment, S_whitelist_txt>>

\* the order in which a directory listing returns the files
CandidateFiles ==
    << <<S_pipes, S_a_conf>>,
       <<S_node_metadata>>,
       <<S_systems, S_b_conf>>,
       <<S_other, S_c_conf>>,
       <<S_pipes, S_readme>>,
       <<S_a_conf>>,
       <<S_x, S_pipes, S_e_conf>>,
       <<S_pipes, S_sub, S_d_conf>>,
       <<S_readme>> >>

CandidateLines == <<L_a, L_meta, L_dot_b, L_c, L_blank>>

FileUniverse == {CandidateFiles[i] : i \in 1..Min(MaxFiles, Len(CandidateFiles))}

LineUniverse == {CandidateLines[i] : i \in 1..Min(MaxLines, Len(CandidateLines))}

ListingOrder == CandidateFiles \o <<WhitelistComponents>>

\* every file below the config folder, the whitelist file included
AllFiles == tree \cup (IF whitelist_file.exists THEN {WhitelistComponents} ELSE {})

\* os.path.exists(path) for a path built from the config folder
Exists(path, input_folder) ==
    LET pcs == Components(path)
        fcs == Components(input_folder)
        rel == SubSeq(pcs, Len(fcs) + 1, Len(pcs))
    IN  /\ IsPrefix(fcs, pcs)
        /\ \/ rel = <<>>
           \/ \E f \in AllFiles : IsPrefix(rel, f)

\* the file names os.walk reports for the directory dir (components below the top)
FilesIn(dir) ==
    LET here == SelectSeq(ListingOrder,
                    LAMBDA f : f \in AllFiles /\ Len(f) = Len(dir) + 1 /\ IsPrefix(dir, f))
    IN  [i \in 1..Len(here) |-> here[i][Len(dir) + 1]]

RECURSIVE Dedupe(_)
Dedupe(s) ==
    IF s = <<>> THEN <<>>
    ELSE LET init == Dedupe(SubSeq(s, 1, Len(s) - 1))
             last == s[Len(s)]
         IN  IF \E i \in 1..Len(init) : init[i] = last THEN init ELSE Append(init, last)

\* the directory names os.walk reports for the directory dir
DirsIn(dir) ==
    LET below == SelectSeq(ListingOrder,
                    LAMBDA f : f \in AllFiles /\ Len(f) > Len(dir) + 1 /\ IsPrefix(dir, f))
    IN  Dedupe([i \in 1..Len(below) |-> below[i][Len(dir) + 1]])

RECURSIVE Flatten(_)
Flatten(ss) == IF ss = <<>> THEN <<>> ELSE Head(ss) \o Flatten(Tail(ss))

\* os.walk(input_folder): every directory top-down, as components below the top
RECURSIVE Walk(_)
Walk(dir) ==
    LET ds == DirsIn(dir)
    IN  <<dir>> \o Flatten([i \in 1..Len(ds) |-> Walk(Append(dir, ds[i]))])

\* ------------------------------------------------------------------------
\* create_zipped_config
\* ------------------------------------------------------------------------

\* lines 126-135: the stripped whitelist lines whose path exists
WhitelistFiles(input_folder, whitelist) ==
    IF whitelist /\ whitelist_file.exists
    THEN {Strip(whitelist_file.lines[i]) : i \in
            {j \in 1..Len(whitelist_file.lines) :
                Exists(PathJoin(input_folder, Strip(whitelist_file.lines[j])), input_folder)}}
    ELSE {}

\* lines 137-141: the root metadata file
MetadataEntries(input_folder, whitelist, whitelist_files) ==
    IF /\ Exists(PathJoin(input_folder, S_node_metadata), input_folder)
       /\ (~whitelist \/ S_node_metadata \in whitelist_files)
    THEN <<S_node_metadata>>
    ELSE <<>>

\* line 148: the directories whose files are considered
IsConfigDir(root) == Basename(root) \in {S_pipes, S_systems}

\* lines 150-156: whether a file of a config directory is written
IncludeFile(root, file, input_folder, whitelist, whitelist_files) ==
    LET file_path == PathJoin(root, file)
    IN  /\ (whitelist => Relpath(file_path, input_folder) \in whitelist_files)
        /\ EndsWith(file, S_conf_json)

\* lines 148-158: the arcnames written for one directory of the walk
DirEntries(dir, input_folder, whitelist, whitelist_files) ==
    LET root == PathJoinAll(input_folder, dir)
        files == FilesIn(dir)
        kept == SelectSeq(files,
                    LAMBDA file : IncludeFile(root, file, input_folder, whitelist, whitelist_files))
    IN  IF IsConfigDir(root)
        THEN [i \in 1..Len(kept) |-> Relpath(PathJoin(root, kept[i]), input_folder)]
        ELSE <<>>

\* lines 147-158: the arcnames written by the walk
WalkEntries(input_folder, whitelist, whitelist_files) ==
    LET walk == Walk(<<>>)
    IN  Flatten([i \in 1..Len(walk) |->
                    DirEntries(walk[i], input_folder, whitelist, whitelist_files)])

\* lines 124-161: every arcname written to the archive when no I/O error occurs
ZipEntries(input_folder, whitelist) ==
    LET whitelist_files == WhitelistFiles(input_folder, whitelist)
    IN  MetadataEntries(input_folder, whitelist, whitelist_files)
          \o WalkEntries(input_folder, whitelist, whitelist_files)

\* ------------------------------------------------------------------------
\* Reading the environment
\* ------------------------------------------------------------------------

\* os.environ.get(name)
EnvGet(name) == IF name \in DOMAIN environ THEN environ[name] ELSE None

\* os.environ.get(name, default)
EnvGetDefault(name, default) == IF name \in DOMAIN environ THEN environ[name] ELSE default

\* truth value of an optional string: neither None nor ""
Truthy(s) == s # None /\ s # <<>>

\* lines 101-102: the required variables that are not set
MissingVars(required_vars) == SelectSeq(required_vars, LAMBDA var : EnvGet(var) = None)

\* check_required_env_vars that reports success whatever is missing
check_required_env_vars_always_true(required_vars) == TRUE

\* lines 101-109
check_required_env_vars(required_vars) == MissingVars(required_vars) = <<>>

\* lines 112-119
parse_bool_env(env_value, default) ==
    IF env_value # None
    THEN LET v == Lower(env_value)
         IN  IF v \in {S_true, S_1, S_yes} THEN TRUE
             ELSE IF v \in {S_false, S_0, S_no} THEN FALSE
             ELSE default
    ELSE default

\* line 234
RequiredEnvVars == <<INPUT_NODE, INPUT_JWT, INPUT_CONFIG_FOLDER>>

\* line 248 applied to the environment of the run
DryRun == parse_bool_env(EnvGetDefault(INPUT_DRY_RUN, S_True), FALSE)

\* lines 240-249
ReadOptions ==
    [ node            |-> EnvGet(INPUT_NODE),
      jwt_token       |-> EnvGet(INPUT_JWT),
      config_folder   |-> EnvGet(INPUT_CONFIG_FOLDER),
      force_config    |-> parse_bool_env(EnvGetDefault(INPUT_FORCE_CONFIG, S_False), FALSE),
      secrets_file    |-> EnvGet(INPUT_SECRETS_FILE),
      replace_secrets |-> parse_bool_env(EnvGetDefault(INPUT_REPLACE_SECRETS, S_False), FALSE),
      variables_file  |-> EnvGet(INPUT_VARIABLES_FILE),
      use_whitelist   |-> parse_bool_env(EnvGetDefault(INPUT_USE_WHITELIST, S_False), FALSE),
      dry_run         |-> DryRun,
      write_summary   |-> parse_bool_env(EnvGetDefault(INPUT_WRITE_SUMMARY, S_False), FALSE) ]

\* the locals before main() has read the environment
NoOptions ==
    [ node |-> None, jwt_token |-> None, config_folder |-> None, force_config |-> FALSE,
      secrets_file |-> None, replace_secrets |-> FALSE, variables_file |-> None,
      use_whitelist |-> FALSE, dry_run |-> FALSE, write_summary |-> FALSE ]

\* ------------------------------------------------------------------------
\* How a step of main() ends
\* ------------------------------------------------------------------------

\* the step returns and main() goes on at next
Continue(next, newLog) ==
    /\ pc' = next
    /\ log' = newLog
    /\ UNCHANGED <<raised, exitCode>>

\* lines 275-277: an Exception reaches the handler of main()
Abort(exc, newLog) ==
    /\ pc' = "done"
    /\ log' = Append(newLog, "exception: An error occurred")
    /\ raised' = exc
    /\ exitCode' = 1

\* lines 237, 268: sys.exit(1) / exit(1) raise SystemExit, which the handler
\* of main() (except Exception) does not catch
SysExit(newLog) ==
    /\ pc' = "done"
    /\ log' = newLog
    /\ raised' = "SystemExit"
    /\ exitCode' = 1

Call(op, force) == [op |-> op, force |-> force]

\* read_json_file that returns data for a file that does not decode
read_json_file_lenient(state) ==
    CASE state = "ok" -> "data"
      [] state = "malformed" -> "data"
      [] OTHER -> "FileNotFoundError"

\* lines 169-177: the outcome of read_json_file on a file in the given state
read_json_file(state) ==
    CASE state = "ok" -> "data"
      [] state = "malformed" -> "ValueError"
      [] OTHER -> "FileNotFoundError"

\* lines 60-73: the outcome of decoding the token in SesamNode.__init__
\* (payload "P" decodes to an object with principals, "E" to an empty object,
\* anything else does not decode)
DecodeJwt(jwt_token) ==
    IF jwt_token = None THEN "AttributeError"
    ELSE LET parts == Split(jwt_token, ".")
         IN  IF Len(parts) # 3 THEN "ValueError"
             ELSE IF parts[2] = <<"P">> THEN "ok"
             ELSE IF parts[2] = <<"E">> THEN "UnboundLocalError"
             ELSE "ValueError"

\* ------------------------------------------------------------------------
\* main()
\* ------------------------------------------------------------------------

\* lines 234-237
CheckRequired ==
    /\ pc = "start"
    /\ IF check_required_env_vars(RequiredEnvVars)
       THEN Continue("read_env", log)
       ELSE SysExit(log \o [i \in 1..Len(MissingVars(RequiredEnvVars)) |->
                                "error: required variable missing"])
    /\ UNCHANGED <<inputs, node_health, opts, sesam_node, calls, steps, zip_path, archive>>

\* lines 240-257
ReadEnv ==
    /\ pc = "read_env"
    /\ opts' = ReadOptions
    /\ Continue("construct", log)
    /\ UNCHANGED <<inputs, node_health, sesam_node, calls, steps, zip_path, archive>>

\* line 260, lines 53-79
Construct ==
    /\ pc = "construct"
    /\ LET outcome == DecodeJwt(opts.jwt_token)
       IN  IF outcome = "ok"
           THEN /\ sesam_node' = "SesamNode"
                /\ Continue("health", log)
           ELSE /\ UNCHANGED sesam_node
                /\ Abort(outcome, log)
    /\ UNCHANGED <<inputs, node_health, opts, calls, steps, zip_path, archive>>

\* what the node may answer to the health query; "raise" is a failed request
HealthOutcomes == {"ok", "degraded", "no status", "raise"}

\* GetHealth that logs a status that is not ok and goes on
GetHealth_no_exit ==
    /\ pc = "health"
    /\ calls' = Append(calls, Call("get_health", FALSE))
    /\ \E status \in HealthOutcomes :
         /\ node_health' = status
         /\ IF status = "raise" THEN Abort("RequestError:health", log)
            ELSE IF status = "ok"
            THEN Continue("deploy_secrets", Append(log, "info: node_status OK"))
            ELSE Continue("deploy_secrets", Append(log, "error: Node health status not OK"))
    /\ UNCHANGED <<inputs, opts, sesam_node, steps, zip_path, archive>>

\* lines 262-268
GetHealth ==
    /\ pc = "health"
    /\ calls' = Append(calls, Call("get_health", FALSE))
    /\ \E status \in HealthOutcomes :
         /\ node_health' = status
         /\ IF status = "raise" THEN Abort("RequestError:health", log)
            ELSE IF status = "ok"
            THEN Continue("deploy_secrets", Append(log, "info: node_status OK"))
            ELSE SysExit(Append(log, "error: Node health status not OK"))
    /\ UNCHANGED <<inputs, opts, sesam_node, steps, zip_path, archive>>

\* deploy_secrets with the create and replace calls exchanged
deploy_secrets_swapped ==
    /\ pc = "deploy_secrets"
    /\ IF ~Truthy(opts.secrets_file)
       THEN /\ Continue("deploy_variables", log)
            /\ UNCHANGED <<calls, steps>>
       ELSE /\ steps' = Append(steps, "secrets")
            /\ LET secrets_json == read_json_file(json_files.secrets)
               IN  IF secrets_json # "data"
                   THEN /\ Abort(secrets_json, log)
                        /\ UNCHANGED calls
                   ELSE IF opts.dry_run
                   THEN /\ Continue("deploy_variables",
                                    Append(log, "result: dry run enabled. No secrets deployed"))
                        /\ UNCHANGED calls
                   ELSE /\ calls' = Append(calls,
                               Call(IF opts.replace_secrets THEN "post_secrets" ELSE "put_secrets",
                                    FALSE))
                        /\ \E ack \in BOOLEAN :
                             IF ack
                             THEN Continue("deploy_variables", Append(log, "result: secrets"))
                             ELSE Abort("UploadError:secrets", log)
    /\ UNCHANGED <<inputs, node_health, opts, sesam_node, zip_path, archive>>

\* lines 180-196
deploy_secrets ==
    /\ pc = "deploy_secrets"
    /\ IF ~Truthy(opts.secrets_file)
       THEN /\ Continue("deploy_variables", log)
            /\ UNCHANGED <<calls, steps>>
       ELSE /\ steps' = Append(steps, "secrets")
            /\ LET secrets_json == read_json_file(json_files.secrets)
               IN  IF secrets_json # "data"
                   THEN /\ Abort(secrets_json, log)
                        /\ UNCHANGED calls
                   ELSE IF opts.dry_run
                   THEN /\ Continue("deploy_variables",
                                    Append(log, "result: dry run enabled. No secrets deployed"))
                        /\ UNCHANGED calls
                   ELSE /\ calls' = Append(calls,
                               Call(IF opts.replace_secrets THEN "put_secrets" ELSE "post_secrets",
                                    FALSE))
                        /\ \E ack \in BOOLEAN :
                             IF ack
                             THEN Continue("deploy_variables", Append(log, "result: secrets"))
                             ELSE Abort("UploadError:secrets", log)
    /\ UNCHANGED <<inputs, node_health, opts, sesam_node, zip_path, archive>>

\* deploy_variables that uploads in a dry run too
deploy_variables_no_dry_run ==
    /\ pc = "deploy_variables"
    /\ IF ~Truthy(opts.variables_file)
       THEN /\ Continue("deploy_config", log)
            /\ UNCHANGED <<calls, steps>>
       ELSE /\ steps' = Append(steps, "variables")
            /\ LET variables_json == read_json_file(json_files.variables)
               IN  IF variables_json # "data"
                   THEN /\ Abort(variables_json, log)
                        /\ UNCHANGED calls
                   ELSE IF FALSE
                   THEN /\ Continue("deploy_config",
                                    Append(log, "result: dry run enabled. No variables deployed"))
                        /\ UNCHANGED calls
                   ELSE /\ calls' = Append(calls, Call("put_env", FALSE))
                        /\ \E ack \in BOOLEAN :
                             IF ack
                             THEN Continue("deploy_config", Append(log, "result: variables"))
                             ELSE Abort("UploadError:variables", log)
    /\ UNCHANGED <<inputs, node_health, opts, sesam_node, zip_path, archive>>

\* lines 198-209
deploy_variables ==
    /\ pc = "deploy_variables"
    /\ IF ~Truthy(opts.variables_file)
       THEN /\ Continue("deploy_config", log)
            /\ UNCHANGED <<calls, steps>>
       ELSE /\ steps' = Append(steps, "variables")
            /\ LET variables_json == read_json_file(json_files.variables)
               IN  IF variables_json # "data"
                   THEN /\ Abort(variables_json, log)
                        /\ UNCHANGED calls
                   ELSE IF opts.dry_run
                   THEN /\ Continue("deploy_config",
                                    Append(log, "result: dry run enabled. No variables deployed"))
                        /\ UNCHANGED calls
                   ELSE /\ calls' = Append(calls, Call("put_env", FALSE))
                        /\ \E ack \in BOOLEAN :
                             IF ack
                             THEN Continue("deploy_config", Append(log, "result: variables"))
                             ELSE Abort("UploadError:variables", log)
    /\ UNCHANGED <<inputs, node_health, opts, sesam_node, zip_path, archive>>

\* lines 122-166: the archive is complete and 'config.zip' is returned, or an
\* I/O error after any number of written entries makes the function log the
\* error and return None
create_zipped_config(input_folder, whitelist, written, ok) ==
    LET entries == ZipEntries(input_folder, whitelist)
    IN  IF ok
        THEN [zip_path |-> "config.zip", archive |-> entries,
              log |-> <<"info: files were added to the zip file">>]
        ELSE [zip_path |-> "None", archive |-> SubSeq(entries, 1, Min(written, Len(entries))),
              log |-> <<"error: An error occurred while creating the zip file">>]

\* lines 211-229
deploy_config ==
    /\ pc = "deploy_config"
    /\ IF ~Truthy(opts.config_folder)
       THEN /\ Continue("end", log)
            /\ UNCHANGED <<calls, steps, zip_path, archive>>
       ELSE /\ steps' = Append(steps, "config")
            /\ \E ok \in BOOLEAN :
               \E written \in 0..Len(ZipEntries(opts.config_folder, opts.use_whitelist)) :
                 LET zipped == create_zipped_config(opts.config_folder, opts.use_whitelist,
                                                    written, ok)
                 IN  /\ ok => written = Len(zipped.archive)
                     /\ zip_path' = zipped.zip_path
                     /\ archive' = zipped.archive
                     /\ IF opts.dry_run
                        THEN /\ Continue("end", (log \o zipped.log) \o
                                    <<"result: dry run enabled. No config deployed">>)
                             /\ UNCHANGED calls
                        ELSE IF zipped.zip_path = "None"
                        THEN /\ Abort("TypeError", log \o zipped.log)
                             /\ UNCHANGED calls
                        ELSE /\ calls' = Append(calls, Call("put_config", opts.force_config))
                             /\ \E ack \in BOOLEAN :
                                  IF ack
                                  THEN Continue("end", Append(log \o zipped.log, "result: config"))
                                  ELSE Abort("UploadError:config", log \o zipped.log)
    /\ UNCHANGED <<inputs, node_health, opts, sesam_node>>

\* main() returns: the process ends with exit code 0
Finish ==
    /\ pc = "end"
    /\ pc' = "done"
    /\ exitCode' = 0
    /\ UNCHANGED <<inputs, node_health, opts, sesam_node, calls, steps, log, zip_path, archive, raised>>

Next ==
    \/ CheckRequired
    \/ ReadEnv
    \/ Construct
    \/ GetHealth
    \/ deploy_secrets
    \/ deploy_variables
    \/ deploy_config
    \/ Finish

\* ------------------------------------------------------------------------
\* Initial states: the inputs of one run
\* ------------------------------------------------------------------------

\* the environment in which exactly the variables with a value are set
EnvOf(t) == [n \in {m \in DOMAIN t : t[m] # None} |-> t[n]]

\* the environments of the deployment runs explored
RunEnvs ==
    { EnvOf(t) : t \in
        [ INPUT_NODE            : {None, S_host},
          INPUT_JWT             : {None, J_good, J_nodots, J_empty},
          INPUT_CONFIG_FOLDER   : {None, S_empty, S_cfg, S_repo_pipes},
          INPUT_SECRETS_FILE    : {None, S_secrets_json},
          INPUT_VARIABLES_FILE  : {None, S_variables_json},
          INPUT_DRY_RUN         : {None, S_True, S_false, S_No, S_maybe, S_empty},
          INPUT_FORCE_CONFIG    : {None, S_true},
          INPUT_REPLACE_SECRETS : {None, S_yes},
          INPUT_USE_WHITELIST   : {None, S_1},
          INPUT_WRITE_SUMMARY   : {None, S_true} ] }

\* the environments of the packaging runs explored
PackEnvs ==
    { EnvOf(t) : t \in
        [ INPUT_NODE            : {S_host},
          INPUT_JWT             : {J_good},
          INPUT_CONFIG_FOLDER   : {S_cfg, S_repo_pipes, S_repo_pipes_slash},
          INPUT_SECRETS_FILE    : {None},
          INPUT_VARIABLES_FILE  : {None},
          INPUT_DRY_RUN         : {None, S_FALSE},
          INPUT_FORCE_CONFIG    : {None},
          INPUT_REPLACE_SECRETS : {None},
          INPUT_USE_WHITELIST   : {None, S_true},
          INPUT_WRITE_SUMMARY   : {None} ] }

\* the lines of a whitelist file: the chosen candidates in file order
LinesOf(chosen) == SelectSeq(CandidateLines, LAMBDA l : l \in chosen)

Whitelists ==
    {[exists |-> FALSE, lines |-> <<>>]}
      \cup {[exists |-> TRUE, lines |-> LinesOf(chosen)] : chosen \in SUBSET LineUniverse}

JsonStates == {"ok", "malformed", "missing"}

\* the states of the file a variable names; no file is read when it names none
JsonStatesFor(env, name) ==
    IF name \in DOMAIN env /\ env[name] # <<>> THEN JsonStates ELSE {"missing"}

InitOver(envs, trees, whitelists) ==
    /\ environ \in envs
    /\ tree \in trees
    /\ whitelist_file \in whitelists
    /\ json_files \in [secrets : JsonStatesFor(environ, INPUT_SECRETS_FILE),
                       variables : JsonStatesFor(environ, INPUT_VARIABLES_FILE)]
    /\ pc = "start"
    /\ opts = NoOptions
    /\ sesam_node = "None"
    /\ node_health = "unset"
    /\ calls = <<>>
    /\ steps = <<>>
    /\ log = <<>>
    /\ zip_path = "unset"
    /\ archive = <<>>
    /\ raised = ""
    /\ exitCode = -1

\* deployment runs: every environment, over an empty and a full tree
Init ==
    InitOver(RunEnvs, {{}, FileUniverse},
             {[exists |-> FALSE, lines |-> <<>>],
              [exists |-> TRUE, lines |-> LinesOf(LineUniverse)]})

Spec == Init /\ [][Next]_vars

\* packaging runs: every tree and whitelist, over the environments that reach packaging
InitPack == InitOver(PackEnvs, SUBSET FileUniverse, Whitelists)

SpecPack == InitPack /\ [][Next]_vars

TypeOK ==
    /\ pc \in {"start", "read_env", "construct", "health", "deploy_secrets",
               "deploy_variables", "deploy_config", "end", "done"}
    /\ exitCode \in {-1, 0, 1}
    /\ sesam_node \in {"None", "SesamNode"}
    /\ zip_path \in {"unset", "None", "config.zip"}

\* ------------------------------------------------------------------------
\* Properties
\* ------------------------------------------------------------------------

\* how many calls of the operation op were made on the connection
Count(op) == Cardinality({i \in DOMAIN calls : calls[i].op = op})

MutatingOps == {"post_secrets", "put_secrets", "put_env", "put_config"}

MutatingCalls == Cardinality({i \in DOMAIN calls : calls[i].op \in MutatingOps})

Attempted(step) == \E i \in DOMAIN steps : steps[i] = step

Logged(msg) == \E i \in DOMAIN log : log[i] = msg

SecretsPresent == Truthy(EnvGet(INPUT_SECRETS_FILE))

VariablesPresent == Truthy(EnvGet(INPUT_VARIABLES_FILE))

ConfigPresent == Truthy(EnvGet(INPUT_CONFIG_FOLDER))

\* a required input (node address, credential, config folder) is not set
RequiredInputMissing ==
    \E name \in {INPUT_NODE, INPUT_JWT, INPUT_CONFIG_FOLDER} : name \notin DOMAIN environ

ReplaceSecrets == parse_bool_env(EnvGetDefault(INPUT_REPLACE_SECRETS, S_False), FALSE)

\* C1 as stated: every finished run with dryRun = true made no mutating
\* NodeClient call and made the health check.
C1_DryRunAlwaysChecksHealth ==
    (pc = "done" /\ DryRun) => (MutatingCalls = 0 /\ Count("get_health") = 1)

\* C1 as amended: a run with dryRun = true never makes a mutating NodeClient
\* call; once it has finished, it has made the health check (exactly one)
\* exactly when the NodeClient was constructed, which needs the required
\* inputs and a token that decodes.
C1_DryRunNoMutation ==
    DryRun =>
        /\ MutatingCalls = 0
        /\ pc = "done" => (Count("get_health") = 1 <=> sesam_node = "SesamNode")
        /\ pc = "done" => (Count("get_health") = 0 <=> sesam_node = "None")
        /\ sesam_node = "SesamNode" =>
              (~RequiredInputMissing /\ DecodeJwt(opts.jwt_token) = "ok")

\* a finished dry run in which all three steps ran and the health check was made
C1_Witness ==
    /\ pc = "done" /\ DryRun /\ exitCode = 0
    /\ steps = <<"secrets", "variables", "config">>
    /\ Count("get_health") = 1

\* C2: when the health query returns a status other than 'ok', the run is
\* over with exit code 1 and no deployment step has run: no secrets,
\* variables or config step, no packaging, no upload.
C2_HealthFailureIsFatal ==
    node_health \in {"degraded", "no status"} =>
        /\ pc = "done"
        /\ exitCode = 1
        /\ steps = <<>>
        /\ MutatingCalls = 0
        /\ zip_path = "unset"
        /\ archive = <<>>

\* a run with all three sources and no dry run, stopped by the health check
C2_Witness ==
    /\ node_health = "degraded"
    /\ pc = "done"
    /\ ~opts.dry_run
    /\ Truthy(opts.secrets_file) /\ Truthy(opts.variables_file) /\ Truthy(opts.config_folder)

\* C3: when create_zipped_config yields no archive, the run does not end as
\* a success: it ends with exit code 1, makes no config upload and does not
\* log the result 'No config deployed' of a run with nothing wrong.
C3_PackagingFailureReported ==
    (pc = "done" /\ zip_path = "None") =>
        /\ exitCode = 1
        /\ Count("put_config") = 0
        /\ ~Logged("result: dry run enabled. No config deployed")

\* C4: a failed secrets upload does not keep the variables and config steps
\* from being attempted, and a failed variables upload does not keep the
\* config step from being attempted.
C4_UploadFailureDoesNotSuppressLaterSteps ==
    /\ (pc = "done" /\ raised = "UploadError:secrets") =>
          /\ VariablesPresent => Attempted("variables")
          /\ ConfigPresent => Attempted("config")
    /\ (pc = "done" /\ raised = "UploadError:variables") =>
          (ConfigPresent => Attempted("config"))

\* C5 as stated: a finished run with a secrets source has made exactly one
\* replace call and no create call when replaceSecrets is set, and exactly
\* one create call and no replace call when it is not.
C5_ExactlyOneSecretsCall ==
    (pc = "done" /\ SecretsPresent) =>
        IF ReplaceSecrets
        THEN Count("put_secrets") = 1 /\ Count("post_secrets") = 0
        ELSE Count("post_secrets") = 1 /\ Count("put_secrets") = 0

\* C5 as amended: with a secrets source present, once the secrets step has
\* run in a run that is not a dry run and whose secrets file parses, exactly
\* one replace call and no create call was made when replaceSecrets is set,
\* and exactly one create call and no replace call when it is not; in every
\* other case (dry run, file that does not parse, step not reached) neither
\* call was made.
C5_SecretsCallWhenDeployed ==
    SecretsPresent =>
        IF Attempted("secrets") /\ ~DryRun /\ json_files.secrets = "ok"
        THEN IF ReplaceSecrets
             THEN Count("put_secrets") = 1 /\ Count("post_secrets") = 0
             ELSE Count("post_secrets") = 1 /\ Count("put_secrets") = 0
        ELSE Count("put_secrets") = 0 /\ Count("post_secrets") = 0

\* a finished run that replaced the secrets
C5_Witness ==
    /\ pc = "done" /\ exitCode = 0
    /\ SecretsPresent /\ ReplaceSecrets /\ ~DryRun
    /\ Count("put_secrets") = 1

\* the set of arcnames in the archive
ArchiveSet == {archive[i] : i \in DOMAIN archive}

\* the name of the directory a file of the tree resides in directly: the last
\* directory of its path, the config folder itself for a file at the root
DirectoryOf(f, input_folder) ==
    IF Len(f) >= 2 THEN f[Len(f) - 1]
    ELSE LET cs == Components(input_folder) IN IF cs = <<>> THEN <<>> ELSE cs[Len(cs)]

\* the whitelist as a set of relative path strings: its lines, trimmed
WhitelistSet ==
    IF whitelist_file.exists
    THEN {Strip(whitelist_file.lines[i]) : i \in DOMAIN whitelist_file.lines}
    ELSE {}

\* the reference bundle: the files directly in a directory named pipes or
\* systems that end with the suffix and pass the whitelist, and the root
\* metadata file if it exists and passes the whitelist
ReferenceBundle(input_folder, whitelist) ==
    { JoinWith(f, "/") : f \in
        { g \in tree :
            /\ \/ /\ DirectoryOf(g, input_folder) \in {S_pipes, S_systems}
                  /\ EndsWith(g[Len(g)], S_conf_json)
               \/ g = <<S_node_metadata>>
            /\ (~whitelist \/ JoinWith(g, "/") \in WhitelistSet) } }

\* C6: the set of entries of a bundle built by create_zipped_config is the
\* reference set.
C6_BundleIsReferenceSet ==
    zip_path = "config.zip" =>
        ArchiveSet = ReferenceBundle(opts.config_folder, opts.use_whitelist)

\* C7: malformed JSON in the secrets source ends the run with exit code 1
\* before the variables and config steps (no variables upload, no packaging,
\* no config upload), and malformed JSON in the variables source ends it with
\* exit code 1 before the config step, in a dry run as in any other.
C7_MalformedJsonIsFatal ==
    /\ (SecretsPresent /\ json_files.secrets = "malformed") =>
          /\ ~Attempted("variables") /\ ~Attempted("config")
          /\ MutatingCalls = 0
          /\ zip_path = "unset" /\ archive = <<>>
          /\ pc = "done" => exitCode = 1
          /\ pc \notin {"deploy_variables", "deploy_config", "end"}
    /\ (VariablesPresent /\ json_files.variables = "malformed") =>
          /\ ~Attempted("config")
          /\ Count("put_env") = 0 /\ Count("put_config") = 0
          /\ zip_path = "unset" /\ archive = <<>>
          /\ pc = "done" => exitCode = 1
          /\ pc \notin {"deploy_config", "end"}

\* a dry run, with variables and config sources, ended by malformed secrets
C7_Witness ==
    /\ pc = "done" /\ raised = "ValueError"
    /\ steps = <<"secrets">>
    /\ json_files.secrets = "malformed"
    /\ opts.dry_run
    /\ VariablesPresent /\ ConfigPresent

\* C8: when a required input (node address, credential, config folder) is not
\* set, the run ends with exit code 1 at the check, the NodeClient is never
\* constructed and no call is made on it.
C8_MissingInputNeverConstructs ==
    RequiredInputMissing =>
        /\ pc \in {"start", "done"}
        /\ pc = "done" => (exitCode = 1 /\ raised = "SystemExit")
        /\ sesam_node = "None"
        /\ calls = <<>>
        /\ steps = <<>>

\* a run ended by the check, with only the node address missing
C8_Witness ==
    /\ pc = "done" /\ exitCode = 1
    /\ EnvGet(INPUT_NODE) = None
    /\ EnvGet(INPUT_JWT) = J_good
    /\ ConfigPresent

\* C9: no relative path is written to the archive twice.
C9_EntryPathsUnique ==
    \A i, j \in DOMAIN archive : archive[i] = archive[j] => i = j

\* C10: a mutating NodeClient call occurs only in a run whose dry-run option
\* was set to a recognized false value (false / 0 / no, in any case).
C10_DryRunUnlessExplicitlyFalse ==
    MutatingCalls > 0 =>
        /\ INPUT_DRY_RUN \in DOMAIN environ
        /\ Lower(environ[INPUT_DRY_RUN]) \in {S_false, S_0, S_no}

====
